---------------------------- MODULE Spec2Model ----------------------------
(***************************************************************************)
(* DocuMind: a model of the retrieval-augmented question answering         *)
(* pipeline (llm_handler.py, ollama_worker.py, vector_store.py, app.py).   *)
(*                                                                         *)
(* Text is a sequence of tokens (a token stands for a run of characters    *)
(* that the program never looks inside).  Python values are records        *)
(* [t, s, n]: t the Python type, s the text of a str (or the element       *)
(* tokens of a list), n the number of an int/bool (or the length of a      *)
(* list).                                                                  *)
(***************************************************************************)
EXTENDS Integers, Sequences, FiniteSets, TLC

VARIABLES
    h_pc,                   \* LLMHandler: "new" before __init__, "ready" after
    ollama_python,          \* self.ollama_python: "" or the interpreter path
    ollama_available,       \* self.ollama_available
    ollama_error_message,   \* self.ollama_error_message (a Python value)
    probes,                 \* number of --check subprocesses run so far
    launches,               \* number of generation subprocesses run so far
    calls,                  \* number of generate_answer/generate_summary calls
    last,                   \* the most recent generate_* call: inputs and result
    vs_pc,                  \* VectorStoreManager: "new", "ready", or "failed"
                            \* when __init__ raised
    opens,                  \* the PersistentClient(path) attempts of __init__
    client_path,            \* the path self.client was opened on
    persisted,              \* the collection stored under ./chroma_db on disk
    index,                  \* self.collection: chunk_id -> entry
    latest,                 \* history: chunk_id -> the chunk most recently added
                            \* since the last clear
    vs_last,                \* the most recent vector store call
    vector_store,           \* st.session_state.vector_store per session:
                            \* FALSE is None, TRUE the collection
    chat_history,           \* st.session_state.chat_history per session
    documents_indexed,      \* st.session_state.documents_indexed per session
    queries,                \* number of questions asked so far
    app_last,               \* the most recent user action and what it did
    split_pc,               \* "new" before split_text is called, "done" after
    split_input,            \* the text given to split_text
    split_output            \* the chunks split_text returned

llm_vars == <<h_pc, ollama_python, ollama_available, ollama_error_message,
              probes, launches, calls, last>>

vs_vars == <<vs_pc, opens, client_path, persisted, index, latest, vs_last>>

app_vars == <<vector_store, chat_history, documents_indexed, queries, app_last>>

split_vars == <<split_pc, split_input, split_output>>

vars == <<llm_vars, vs_vars, app_vars, split_vars>>

-----------------------------------------------------------------------------
(* Bounds of the model.                                                    *)

MaxCalls == 2
MaxDocs == 2
MaxChunks == 2      \* chunk ids in the pool
MaxBatch == 2       \* chunks in one add
MaxK == 3           \* largest k asked of search_similar
MaxFiles == 1       \* files in one upload
MaxQueries == 1     \* questions asked in one run of the application
MaxBatchFiles == 2  \* files in one upload when batches are studied
MaxUnits == 5       \* words and separators in a text given to the splitter
ChunkSize == 6      \* DocumentProcessor(chunk_size=6, chunk_overlap=2)
ChunkOverlap == 2

-----------------------------------------------------------------------------
(* Text: str.strip(), substring test.                                      *)

Whitespace == {" ", "\n"}

RECURSIVE LStrip(_)
LStrip(t) ==
    IF t # <<>> /\ Head(t) \in Whitespace THEN LStrip(Tail(t)) ELSE t

RECURSIVE RStrip(_)
RStrip(t) ==
    IF t # <<>> /\ t[Len(t)] \in Whitespace
    THEN RStrip(SubSeq(t, 1, Len(t) - 1))
    ELSE t

Strip(t) == RStrip(LStrip(t))

Contains(big, small) ==
    \E i \in 1..(Len(big) + 1) :
        /\ i + Len(small) - 1 <= Len(big)
        /\ SubSeq(big, i, i + Len(small) - 1) = small

-----------------------------------------------------------------------------
(* Python values.                                                          *)

StrV(s) == [t |-> "str", s |-> s, n |-> 0]
IntV(n) == [t |-> "int", s |-> <<>>, n |-> n]
BoolV(b) == [t |-> "bool", s |-> <<>>, n |-> IF b THEN 1 ELSE 0]
ListV(elems) == [t |-> "list", s |-> elems, n |-> Len(elems)]
NoneV == [t |-> "none", s |-> <<>>, n |-> 0]
Missing == [t |-> "missing", s |-> <<>>, n |-> 0]

\* bool(v)
Truthy(v) ==
    CASE v.t = "str" -> v.s # <<>>
      [] v.t = "int" -> v.n # 0
      [] v.t = "bool" -> v.n = 1
      [] v.t = "list" -> v.n > 0
      [] OTHER -> FALSE

\* str(v), as an f-string formats it
PyStr(v) ==
    CASE v.t = "str" -> v.s
      [] v.t = "int" -> <<ToString(v.n)>>
      [] v.t = "bool" -> IF v.n = 1 THEN <<"True">> ELSE <<"False">>
      [] v.t = "list" -> <<"[">> \o v.s \o <<"]">>
      [] OTHER -> <<"None">>

\* the empty collection
Empty == [id \in {} |-> 0]

\* no vector store call yet
NoOp == [op |-> "none", raised |-> FALSE, exc |-> "", chunks |-> <<>>,
         query |-> "", k |-> 0, results |-> <<>>, before |-> Empty]

\* the browser sessions of the application
Sessions == {"s1", "s2"}

\* no user action yet
NoAction == [action |-> "none", session |-> "", files |-> <<>>, before |-> Empty,
             errors |-> <<>>, chunks |-> 0,
             tmp_created |-> <<>>, tmp_removed |-> <<>>, raised |-> FALSE,
             exc |-> "", retrieved |-> 0, called_llm |-> FALSE]

\* dict.get(key, default) on a parsed object d
Get(d, key, default) == IF d[key].t = "missing" THEN default ELSE d[key]

-----------------------------------------------------------------------------
(* JSON as the worker writes it (json.dumps) and as the handler reads it   *)
(* (json.loads).  A document is a text over the tokens below; ": " and     *)
(* ", " are the separators json.dumps emits.                               *)

Digits == {"0", "5"}
DigitValue(c) == IF c = "0" THEN 0 ELSE 5

\* json.dumps of one value
DumpsValue(v) ==
    CASE v.t = "str" -> <<"\"">> \o v.s \o <<"\"">>
      [] v.t = "int" -> <<ToString(v.n)>>
      [] v.t = "bool" -> IF v.n = 1 THEN <<"true">> ELSE <<"false">>
      [] v.t = "list" -> <<"[">> \o v.s \o <<"]">>
      [] OTHER -> <<"null">>

\* json.dumps of an object given as a sequence of <<key, value>> pairs
RECURSIVE DumpsMembers(_)
DumpsMembers(kvs) ==
    IF kvs = <<>> THEN <<>>
    ELSE <<"\"", kvs[1][1], "\"", ": ">> \o DumpsValue(kvs[1][2])
         \o (IF Len(kvs) > 1 THEN <<", ">> ELSE <<>>)
         \o DumpsMembers(Tail(kvs))

Dumps(kvs) == <<"{">> \o DumpsMembers(kvs) \o <<"}">>

\* index of the first token c at or after position i (0: none)
RECURSIVE Find(_, _, _)
Find(t, c, i) ==
    IF i > Len(t) THEN 0 ELSE IF t[i] = c THEN i ELSE Find(t, c, i + 1)

BadParse == [good |-> FALSE, v |-> NoneV, next |-> 0]

\* a JSON string opening at position i and closing at j (0: unterminated)
StringAt(t, i, j) ==
    IF j = 0 THEN BadParse
    ELSE [good |-> TRUE, v |-> StrV(SubSeq(t, i + 1, j - 1)), next |-> j + 1]

\* a JSON array of at most one number opening at i and closing at j
ListAt(t, i, j) ==
    IF j = 0 \/ j > i + 2 \/ \E k \in (i + 1)..(j - 1) : t[k] \notin Digits
    THEN BadParse
    ELSE [good |-> TRUE, v |-> ListV(SubSeq(t, i + 1, j - 1)), next |-> j + 1]

\* one JSON value starting at position i: [good, v, next]
ParseValue(t, i) ==
    IF i > Len(t) THEN BadParse
    ELSE CASE t[i] = "true" -> [good |-> TRUE, v |-> BoolV(TRUE), next |-> i + 1]
           [] t[i] = "false" -> [good |-> TRUE, v |-> BoolV(FALSE), next |-> i + 1]
           [] t[i] = "null" -> [good |-> TRUE, v |-> NoneV, next |-> i + 1]
           [] t[i] \in Digits ->
                [good |-> TRUE, v |-> IntV(DigitValue(t[i])), next |-> i + 1]
           [] t[i] = "\"" -> StringAt(t, i, Find(t, "\"", i + 1))
           [] t[i] = "[" -> ListAt(t, i, Find(t, "]", i + 1))
           [] OTHER -> BadParse

EmptyDict == [ok |-> Missing, answer |-> Missing, error |-> Missing]
Keys == {"ok", "answer", "error"}

BadMembers == [good |-> FALSE, d |-> EmptyDict, next |-> 0]

RECURSIVE ParseMembers(_, _, _)

\* the member whose key is at i + 1 and whose value parsed as val; a repeated
\* key keeps its last value
MemberAt(t, i, d, val) ==
    IF ~val.good \/ val.next > Len(t) THEN BadMembers
    ELSE IF t[val.next] = "}"
    THEN [good |-> TRUE, d |-> [d EXCEPT ![t[i + 1]] = val.v], next |-> val.next + 1]
    ELSE IF t[val.next] = ", "
    THEN ParseMembers(t, val.next + 1, [d EXCEPT ![t[i + 1]] = val.v])
    ELSE BadMembers

\* the members of an object from position i on, d the members read so far:
\* [good, d, next]
ParseMembers(t, i, d) ==
    IF i + 3 > Len(t) \/ t[i] # "\"" \/ t[i + 1] \notin Keys
       \/ t[i + 2] # "\"" \/ t[i + 3] # ": "
    THEN BadMembers
    ELSE MemberAt(t, i, d, ParseValue(t, i + 4))

NotJson == [good |-> FALSE, isdict |-> FALSE, d |-> EmptyDict]

ObjectResult(t, m) ==
    IF m.good /\ m.next = Len(t) + 1
    THEN [good |-> TRUE, isdict |-> TRUE, d |-> m.d]
    ELSE NotJson

ScalarResult(t, p) ==
    [good |-> p.good /\ p.next = Len(t) + 1, isdict |-> FALSE, d |-> EmptyDict]

\* json.loads(t): good (no JSONDecodeError), isdict (the value is an object),
\* d (its ok / answer / error members)
Loads(t) ==
    IF t = <<>> THEN NotJson
    ELSE IF t[1] = "{"
    THEN IF Len(t) = 2 /\ t[2] = "}"
         THEN [good |-> TRUE, isdict |-> TRUE, d |-> EmptyDict]
         ELSE ObjectResult(t, ParseMembers(t, 2, EmptyDict))
    ELSE ScalarResult(t, ParseValue(t, 1))

-----------------------------------------------------------------------------
(* ollama_worker.py: what the worker prints for each outcome of the        *)
(* backend.  print() ends the line.                                        *)

\* module level: "import ollama" fails
WorkerImportFailure ==
    Dumps(<< <<"ok", BoolV(FALSE)>>,
             <<"error", StrV(<<"Failed to import ollama: ", "No module named ollama">>)>> >>)
    \o <<"\n">>

\* main() with --check: backend is "up" or "down"
WorkerCheck(backend) ==
    (IF backend = "up"
     THEN Dumps(<< <<"ok", BoolV(TRUE)>> >>)
     ELSE Dumps(<< <<"ok", BoolV(FALSE)>>, <<"error", StrV(<<"connection refused">>)>> >>))
    \o <<"\n">>

\* main() in chat/summary mode: the backend answers with content, or raises
WorkerChat(backend, content) ==
    (IF backend = "up"
     THEN Dumps(<< <<"ok", BoolV(TRUE)>>, <<"answer", content>> >>)
     ELSE Dumps(<< <<"ok", BoolV(FALSE)>>, <<"error", StrV(<<"connection refused">>)>> >>))
    \o <<"\n">>

-----------------------------------------------------------------------------
(* subprocess.run(..., capture_output=True, text=True, timeout=limit)      *)

ProbeTimeout == 8
GenerateTimeout == 60

Durations == {1, 9, 61}

NoRun == [kind |-> "none", stdout |-> <<>>, stderr |-> <<>>]

SubprocessRun(launchable, duration, limit, out, err) ==
    IF ~launchable THEN [kind |-> "oserror", stdout |-> <<>>, stderr |-> <<>>]
    ELSE IF duration > limit THEN [kind |-> "timeout", stdout |-> <<>>, stderr |-> <<>>]
    ELSE [kind |-> "completed", stdout |-> out, stderr |-> err]

\* str(e) of the exception subprocess.run raised
ExcText(kind) ==
    IF kind = "timeout" THEN "Command timed out" ELSE "No such file or directory"

Stderrs == {<<>>, <<"warn", "\n">>}

NoResponseMessage == <<"No response from Ollama worker.">>

\* what an interpreter that is not the repository's worker may print
ForeignStdouts ==
    { <<>>, <<"\n">>, <<"junk", "\n">>, <<" ", "junk", "\n">>,
      <<"[", "5", "]", "\n">>, <<"5", "\n">>, <<"{", "}", "\n">> }

\* every JSON value the "error" member may hold
JsonValues ==
    { StrV(<<"boom">>), StrV(<<>>), IntV(5), IntV(0), BoolV(TRUE), NoneV,
      ListV(<<"5">>), ListV(<<>>) }

ProbeStdouts ==
    {WorkerImportFailure, WorkerCheck("up"), WorkerCheck("down")}
    \cup ForeignStdouts
    \cup {Dumps(<< <<"ok", BoolV(FALSE)>>, <<"error", e>> >>) \o <<"\n">> : e \in JsonValues}
    \cup {Dumps(<< <<"ok", BoolV(FALSE)>> >>) \o <<"\n">>,
          Dumps(<< <<"ok", IntV(5)>> >>) \o <<"\n">>,
          Dumps(<< <<"error", StrV(<<"boom">>)>> >>) \o <<"\n">>}

GenerateStdouts ==
    {WorkerImportFailure, WorkerChat("down", NoneV)}
    \cup {WorkerChat("up", c) :
            c \in {StrV(<<"Paris">>), StrV(<<>>), StrV(NoResponseMessage), NoneV}}
    \cup ForeignStdouts
    \cup {<<"\"", "a", "\"", "\n">>}
    \cup {Dumps(<< <<"ok", BoolV(TRUE)>>, <<"answer", a>> >>) \o <<"\n">> :
            a \in {IntV(5), ListV(<<"5">>), IntV(0)}}
    \cup {Dumps(<< <<"ok", BoolV(FALSE)>>, <<"error", e>> >>) \o <<"\n">> :
            e \in {IntV(5), NoneV}}
    \cup {Dumps(<< <<"ok", BoolV(TRUE)>> >>) \o <<"\n">>,
          Dumps(<< <<"ok", BoolV(FALSE)>> >>) \o <<"\n">>,
          Dumps(<< <<"ok", IntV(5)>>, <<"answer", StrV(<<"Paris">>)>> >>) \o <<"\n">>}

-----------------------------------------------------------------------------
(* llm_handler.py: LLMHandler.                                             *)

NotConfiguredMessage ==
    <<"Secondary venv Python not configured. Set OLLAMA_PY to the python.exe of the Ollama venv.">>
UnavailablePrefix == <<"LLM is unavailable. ">>
TypeErrorText == "unsupported operand type(s) for +"

\* lines 32-36: ok = bool(data.get("ok")), False when stdout is empty or
\* json.loads / data.get raised
ProbeOk(run, data) ==
    run.stdout # <<>> /\ data.good /\ data.isdict /\ Truthy(Get(data.d, "ok", NoneV))

\* lines 33-40: the message after reading stdout
ProbeStdoutMessage(run, data) ==
    IF run.stdout = <<>> THEN StrV(<<>>)
    ELSE IF ~(data.good /\ data.isdict) THEN StrV(Strip(run.stdout))
    ELSE IF ~Truthy(Get(data.d, "ok", NoneV))
    THEN Get(data.d, "error", StrV(<<"Unknown error">>))
    ELSE StrV(<<>>)

\* lines 43-45
ProbeDefault(ok, m) ==
    [available |-> ok,
     message |-> IF ~ok /\ ~Truthy(m)
                 THEN StrV(<<"Ollama worker check failed.">>)
                 ELSE m]

\* lines 41-48: message + "\n" raises TypeError on a message that is no str,
\* which the outer except catches
ProbeFinish(run, ok, m) ==
    IF run.stderr # <<>> /\ ~ok
    THEN IF m.t # "str"
         THEN [available |-> FALSE,
               message |-> StrV(<<"Failed to execute Ollama worker: ", TypeErrorText>>)]
         ELSE ProbeDefault(ok, StrV(Strip(m.s \o <<"\n">> \o Strip(run.stderr))))
    ELSE ProbeDefault(ok, m)

ProbeCompleted(run, data) ==
    ProbeFinish(run, ProbeOk(run, data), ProbeStdoutMessage(run, data))

\* __init__: the probe's outcome run decides available and message
HandlerInit(python, run) ==
    IF python = ""
    THEN [available |-> FALSE, message |-> StrV(NotConfiguredMessage)]
    ELSE IF run.kind # "completed"
    THEN [available |-> FALSE,
          message |-> StrV(<<"Failed to execute Ollama worker: ", ExcText(run.kind)>>)]
    ELSE ProbeCompleted(run, Loads(Strip(run.stdout)))

\* doc['metadata'].get('page', 'N/A') and the citation built from one chunk
Citation(doc) ==
    [document |-> doc.document, page |-> Get(doc, "page", StrV(<<"N/A">>)),
     text |-> doc.text]

Sources(docs) == [i \in 1..Len(docs) |-> Citation(docs[i])]

\* create_context: metadata['page'] raises KeyError on a chunk without page
ContextRaises(docs) == \E i \in 1..Len(docs) : docs[i].page.t = "missing"

RECURSIVE ContextParts(_, _)
ContextParts(docs, i) ==
    IF i > Len(docs) THEN <<>>
    ELSE <<"\nSource ", ToString(i), " (Document: ", docs[i].document, ", Page: ">>
         \o PyStr(docs[i].page) \o <<"):\n", docs[i].text, "\n">>
         \o (IF i < Len(docs) THEN <<"\n">> ELSE <<>>)
         \o ContextParts(docs, i + 1)

create_context(docs) == ContextParts(docs, 1)

\* the argv of the worker subprocess
ChatRequest(query, docs) ==
    [mode |-> "chat",
     user |-> <<"Context from documents:\n">> \o create_context(docs)
              \o <<"\n\nQuestion: ", query>>,
     temperature |-> "0.7", num_predict |-> "500"]

SummaryRequest(text) ==
    [mode |-> "summary",
     user |-> <<"Please provide a concise summary of the following text:\n\n", text>>,
     temperature |-> "0.5", num_predict |-> "200"]

NoRequest == [mode |-> "none", user |-> <<>>, temperature |-> "", num_predict |-> ""]

\* a variant that never looks at "ok": an error object yields its (absent) answer
AnswerFromStdoutIgnoresOk(run, payload) ==
    IF run.stdout = <<>> THEN StrV(<<>>)
    ELSE IF ~(payload.good /\ payload.isdict) THEN StrV(Strip(run.stdout))
    ELSE Get(payload.d, "answer", StrV(<<>>))

\* generate_answer, lines 148-157: the answer read from stdout
AnswerFromStdout(run, payload) ==
    IF run.stdout = <<>> THEN StrV(<<>>)
    ELSE IF ~(payload.good /\ payload.isdict) THEN StrV(Strip(run.stdout))
    ELSE IF Truthy(Get(payload.d, "ok", NoneV))
    THEN Get(payload.d, "answer", StrV(<<>>))
    ELSE StrV(<<"Error generating response: ">>
              \o PyStr(Get(payload.d, "error", StrV(<<"Unknown error">>))))

\* a variant that tests for the missing answer before it looks at stderr
AnswerFallbackBeforeStderr(run, answer) ==
    IF Truthy(answer) THEN answer ELSE StrV(NoResponseMessage)

\* generate_answer, lines 158-161
AnswerFallback(run, answer) ==
    IF Truthy(answer) THEN answer
    ELSE IF run.stderr # <<>>
    THEN StrV(<<"Error generating response: ">> \o Strip(run.stderr))
    ELSE StrV(NoResponseMessage)

\* generate_answer, lines 132-163: the answer for one outcome of the worker
AnswerFromRun(run) ==
    IF run.kind # "completed"
    THEN StrV(<<"Error generating response: ", ExcText(run.kind),
                "\nPlease ensure the Ollama worker venv is configured.">>)
    ELSE AnswerFallback(run, AnswerFromStdout(run, Loads(Strip(run.stdout))))

\* generate_summary, lines 208-218
SummaryFromStdout(run, payload) ==
    IF run.stdout # <<>>
    THEN IF ~(payload.good /\ payload.isdict) THEN StrV(Strip(run.stdout))
         ELSE IF Truthy(Get(payload.d, "ok", NoneV))
         THEN Get(payload.d, "answer", StrV(<<>>))
         ELSE StrV(<<"Error generating summary: ">>
                   \o PyStr(Get(payload.d, "error", StrV(<<"Unknown error">>))))
    ELSE IF run.stderr # <<>>
    THEN StrV(<<"Error generating summary: ">> \o Strip(run.stderr))
    ELSE StrV(NoResponseMessage)

\* generate_summary, lines 192-220
SummaryFromRun(run) ==
    IF run.kind # "completed"
    THEN StrV(<<"Error generating summary: ", ExcText(run.kind),
                "\nPlease ensure the Ollama worker venv is configured.">>)
    ELSE SummaryFromStdout(run, Loads(Strip(run.stdout)))

Returned(op, docs, answer, sources, run, request) ==
    [op |-> op, raised |-> FALSE, exc |-> "", answer |-> answer,
     sources |-> sources, docs |-> docs, run |-> run, request |-> request,
     launched |-> run.kind # "none"]

Raised(op, docs, exc) ==
    [op |-> op, raised |-> TRUE, exc |-> exc, answer |-> NoneV,
     sources |-> <<>>, docs |-> docs, run |-> NoRun, request |-> NoRequest,
     launched |-> FALSE]

\* generate_answer(query, relevant_docs); run is what the worker subprocess
\* does if it is launched
generate_answer(available, message, query, docs, run) ==
    IF ~available
    THEN IF message.t # "str"
         THEN Raised("generate_answer", docs, "TypeError")
         ELSE Returned("generate_answer", docs, StrV(UnavailablePrefix \o message.s),
                       Sources(docs), NoRun, NoRequest)
    ELSE IF ContextRaises(docs)
    THEN Raised("generate_answer", docs, "KeyError")
    ELSE Returned("generate_answer", docs, AnswerFromRun(run), Sources(docs),
                  run, ChatRequest(query, docs))

\* generate_summary(text)
generate_summary(available, message, text, run) ==
    IF ~available
    THEN IF message.t # "str"
         THEN Raised("generate_summary", <<>>, "TypeError")
         ELSE Returned("generate_summary", <<>>, StrV(UnavailablePrefix \o message.s),
                       <<>>, NoRun, NoRequest)
    ELSE Returned("generate_summary", <<>>, SummaryFromRun(run), <<>>,
                  run, SummaryRequest(text))

-----------------------------------------------------------------------------
(* The handler as a state machine.                                         *)

Paths == {"", "venv/python"}
Queries == {"q1"}

DocPool ==
    { [text |-> "t1", document |-> "a.txt", page |-> IntV(1)],
      [text |-> "t2", document |-> "b.txt", page |-> Missing] }

RECURSIVE SeqsUpTo(_, _)
SeqsUpTo(S, n) ==
    IF n = 0 THEN {<<>>}
    ELSE LET shorter == SeqsUpTo(S, n - 1)
         IN  shorter \cup {Append(q, x) : q \in shorter, x \in S}

DocLists == SeqsUpTo(DocPool, MaxDocs)

\* every outcome of a subprocess with the given time limit and outputs
Runs(limit, outs) ==
    {SubprocessRun(launchable, duration, limit, out, err) :
        launchable \in BOOLEAN, duration \in Durations, out \in outs, err \in Stderrs}

ProbeRuns == Runs(ProbeTimeout, ProbeStdouts)
GenerateRuns == Runs(GenerateTimeout, GenerateStdouts)

NoCall == Returned("none", <<>>, NoneV, <<>>, NoRun, NoRequest)

InitLLM ==
    /\ h_pc = "new"
    /\ ollama_python = ""
    /\ ollama_available = FALSE
    /\ ollama_error_message = StrV(<<>>)
    /\ probes = 0
    /\ launches = 0
    /\ calls = 0
    /\ last = NoCall
    /\ vs_pc = "new"
    /\ opens = <<>>
    /\ client_path = <<>>
    /\ persisted = Empty
    /\ index = Empty
    /\ latest = Empty
    /\ vs_last = NoOp
    /\ vector_store = [s \in Sessions |-> FALSE]
    /\ chat_history = [s \in Sessions |-> <<>>]
    /\ documents_indexed = [s \in Sessions |-> <<>>]
    /\ queries = 0
    /\ app_last = NoAction
    /\ split_pc = "new"
    /\ split_input = <<>>
    /\ split_output = <<>>

Constructed(python, run, r) ==
    /\ ollama_python' = python
    /\ ollama_available' = r.available
    /\ ollama_error_message' = r.message
    /\ probes' = IF run.kind = "none" THEN probes ELSE probes + 1

\* LLMHandler(): ollama_python_path or os.environ.get("OLLAMA_PY", ""); the
\* probe runs only if an interpreter is configured
ConstructFrom(runs) ==
    /\ h_pc = "new"
    /\ \E python \in Paths :
       \E run \in (IF python = "" THEN {NoRun} ELSE runs) :
          /\ Constructed(python, run, HandlerInit(python, run))
          /\ last' = Returned("__init__", <<>>, NoneV, <<>>, run, NoRequest)
    /\ h_pc' = "ready"
    /\ UNCHANGED <<launches, calls>>

Construct == ConstructFrom(ProbeRuns)

\* a variant that probes again on every request
GenerateAnswerReprobes ==
    /\ h_pc = "ready"
    /\ calls < MaxCalls
    /\ \E run \in ProbeRuns :
          Constructed(ollama_python, run, HandlerInit("venv/python", run))
    /\ \E query \in Queries, docs \in DocLists :
       \E run \in (IF ollama_available' THEN GenerateRuns ELSE {NoRun}) :
          last' = generate_answer(ollama_available', ollama_error_message',
                                  query, docs, run)
    /\ launches' = IF last'.launched THEN launches + 1 ELSE launches
    /\ calls' = calls + 1
    /\ UNCHANGED h_pc

\* the worker subprocess is an input only of a call that reaches it
GenerateAnswer ==
    /\ h_pc = "ready"
    /\ calls < MaxCalls
    /\ \E query \in Queries, docs \in DocLists :
       \E run \in (IF ollama_available THEN GenerateRuns ELSE {NoRun}) :
          last' = generate_answer(ollama_available, ollama_error_message,
                                  query, docs, run)
    /\ launches' = IF last'.launched THEN launches + 1 ELSE launches
    /\ calls' = calls + 1
    /\ UNCHANGED <<h_pc, ollama_python, ollama_available, ollama_error_message, probes>>

GenerateSummary ==
    /\ h_pc = "ready"
    /\ calls < MaxCalls
    /\ \E text \in {"long text"} :
       \E run \in (IF ollama_available THEN GenerateRuns ELSE {NoRun}) :
          last' = generate_summary(ollama_available, ollama_error_message, text, run)
    /\ launches' = IF last'.launched THEN launches + 1 ELSE launches
    /\ calls' = calls + 1
    /\ UNCHANGED <<h_pc, ollama_python, ollama_available, ollama_error_message, probes>>

NextLLM ==
    \/ Construct /\ UNCHANGED <<vs_vars, app_vars, split_vars>>
    \/ GenerateAnswer /\ UNCHANGED <<vs_vars, app_vars, split_vars>>
    \/ GenerateSummary /\ UNCHANGED <<vs_vars, app_vars, split_vars>>

SpecLLM == InitLLM /\ [][NextLLM]_vars

-----------------------------------------------------------------------------
(* vector_store.py: VectorStoreManager over chromadb (>= 0.4, the versions *)
(* that have PersistentClient) and a sentence-transformers model.          *)

PrimaryPath == <<"./chroma_db">>
FreshPath(ts) == <<"./chroma_db_", ts>>
Timestamps == {"1700000000", "1700000001"}

\* what PersistentClient(path) may do
OpenOutcomes == {"ok", "InconsistentHashError", "OSError"}

Attempt(path, outcome) == [path |-> path, outcome |-> outcome]

\* __init__, lines 24-51.  o1, o2, o3: the outcomes of the first open, of the
\* reopen after shutil.rmtree, and of the open on the timestamped path.  An
\* exception raised inside an except block is not caught by the sibling
\* "except Exception" of the same try.
OpenChain(o1, o2, o3, ts) ==
    IF o1 = "ok"
    THEN [opens |-> <<Attempt(PrimaryPath, o1)>>, client |-> PrimaryPath,
          exc |-> "", wiped |-> FALSE]
    ELSE IF o2 = "ok"
    THEN [opens |-> <<Attempt(PrimaryPath, o1), Attempt(PrimaryPath, o2)>>,
          client |-> PrimaryPath, exc |-> "", wiped |-> TRUE]
    ELSE IF o1 = "InconsistentHashError" /\ o2 # "InconsistentHashError"
    THEN [opens |-> <<Attempt(PrimaryPath, o1), Attempt(PrimaryPath, o2)>>,
          client |-> <<>>, exc |-> o2, wiped |-> TRUE]
    ELSE [opens |-> <<Attempt(PrimaryPath, o1), Attempt(PrimaryPath, o2),
                      Attempt(FreshPath(ts), o3)>>,
          client |-> IF o3 = "ok" THEN FreshPath(ts) ELSE <<>>,
          exc |-> IF o3 = "ok" THEN "" ELSE o3, wiped |-> TRUE]

\* SentenceTransformer.encode of one text, as an angle: the cosine distance of
\* two texts grows with the difference of their angles
Embed(text) ==
    CASE text = "t1" -> 1
      [] text = "t2" -> 2
      [] text = "t3" -> 4
      [] text = "q1" -> 1
      [] text = "q2" -> 3
      [] OTHER -> 0

Distance(a, b) == IF a > b THEN a - b ELSE b - a

\* generate_embeddings
generate_embeddings(texts) == [i \in 1..Len(texts) |-> Embed(texts[i])]

\* chunk ids as process_document builds them
ChunkId(filename, page, idx) ==
    <<filename, "_page", ToString(page), "_chunk", ToString(idx)>>

Chunk(text, filename, page, idx, source_type) ==
    [text |-> text, document |-> filename, page |-> IntV(page),
     chunk_id |-> ChunkId(filename, page, idx), source_type |-> source_type]

IdsOfChunks(chunks) == [i \in 1..Len(chunks) |-> chunks[i].chunk_id]

HasDuplicates(ids) == \E i, j \in 1..Len(ids) : i < j /\ ids[i] = ids[j]

Entry(chunk, emb) ==
    [text |-> chunk.text, document |-> chunk.document, page |-> chunk.page,
     chunk_id |-> chunk.chunk_id, source_type |-> chunk.source_type, emb |-> emb]

\* the first position of id in the batch
RECURSIVE FirstAt(_, _, _)
FirstAt(ids, id, i) == IF ids[i] = id THEN i ELSE FirstAt(ids, id, i + 1)

Range(f) == {f[i] : i \in DOMAIN f}

\* collection.add(embeddings, documents, metadatas, ids): ids repeated in the
\* batch raise DuplicateIDError; an id already in the collection is skipped
\* (chromadb logs "Add of existing embedding ID"), the others are inserted
CollectionAdd(idx, chunks, embeddings) ==
    LET ids == [i \in 1..Len(chunks) |-> chunks[i].chunk_id]
    IN  IF HasDuplicates(ids)
        THEN [raised |-> TRUE, exc |-> "DuplicateIDError", index |-> idx]
        ELSE [raised |-> FALSE, exc |-> "",
              index |-> [id \in DOMAIN idx \cup Range(ids) |->
                            IF id \in DOMAIN idx
                            THEN idx[id]
                            ELSE Entry(chunks[FirstAt(ids, id, 1)],
                                       embeddings[FirstAt(ids, id, 1)])]]

\* create_vector_store / add_documents: texts, metadatas and ids are read off
\* the chunks, embedded and handed to collection.add
AddChunks(idx, chunks) ==
    CollectionAdd(idx, chunks,
                  generate_embeddings([i \in 1..Len(chunks) |-> chunks[i].text]))

Min(a, b) == IF a < b THEN a ELSE b

\* collection.query(query_embeddings=[q], n_results=k): chromadb lowers
\* n_results to the number of entries; the nearest come first, entries at the
\* same distance in either order
CollectionQuery(idx, q, k) ==
    LET n == Min(Cardinality(DOMAIN idx), k)
        d(id) == Distance(q, idx[id].emb)
    IN  {r \in [1..n -> DOMAIN idx] :
            /\ \A i, j \in 1..n : i < j => r[i] # r[j] /\ d(r[i]) <= d(r[j])
            /\ \A id \in DOMAIN idx \ Range(r) : \A i \in 1..n : d(r[i]) <= d(id)}

SearchResult(entry, q) ==
    [text |-> entry.text, document |-> entry.document, page |-> entry.page,
     chunk_id |-> entry.chunk_id, source_type |-> entry.source_type,
     distance |-> Distance(q, entry.emb)]

\* a variant that reads k rows whatever the query returned
search_similar_reads_k(idx, query, k, r) ==
    IF Len(r) < k
    THEN [raised |-> TRUE, exc |-> "IndexError", results |-> <<>>]
    ELSE [raised |-> FALSE, exc |-> "",
          results |-> [i \in 1..k |-> SearchResult(idx[r[i]], Embed(query))]]

\* search_similar, lines 127-137: r is the row collection.query returned
search_similar(idx, query, k, r) ==
    [raised |-> FALSE, exc |-> "",
     results |-> [i \in 1..Len(r) |-> SearchResult(idx[r[i]], Embed(query))]]

\* get_collection_stats()['total_documents']
total_documents(idx) == Cardinality(DOMAIN idx)

-----------------------------------------------------------------------------
(* The vector store as a state machine.                                    *)

ChunkPool ==
    {Chunk(text, "a.txt", 1, i, "txt") : text \in {"t1", "t2"}, i \in 0..(MaxChunks - 1)}

Batches == SeqsUpTo(ChunkPool, MaxBatch) \ {<<>>}

\* what an earlier run of the program left under ./chroma_db
Leftovers == {Empty, AddChunks(Empty, <<Chunk("t1", "a.txt", 1, 0, "txt")>>).index}

InitVS ==
    /\ vs_pc = "new"
    /\ opens = <<>>
    /\ client_path = <<>>
    /\ persisted \in Leftovers
    /\ index = Empty
    /\ latest = Empty
    /\ vs_last = NoOp
    /\ h_pc = "new"
    /\ ollama_python = ""
    /\ ollama_available = FALSE
    /\ ollama_error_message = StrV(<<>>)
    /\ probes = 0
    /\ launches = 0
    /\ calls = 0
    /\ last = NoCall
    /\ vector_store = [s \in Sessions |-> FALSE]
    /\ chat_history = [s \in Sessions |-> <<>>]
    /\ documents_indexed = [s \in Sessions |-> <<>>]
    /\ queries = 0
    /\ app_last = NoAction
    /\ split_pc = "new"
    /\ split_input = <<>>
    /\ split_output = <<>>

VSConstructed(c) ==
    /\ opens' = c.opens
    /\ client_path' = c.client
    /\ vs_pc' = IF c.exc = "" THEN "ready" ELSE "failed"
    /\ persisted' = IF c.wiped THEN Empty ELSE persisted
    \* lines 57-63: the collection found under the opened path, or a new one
    /\ index' = IF c.exc = "" /\ ~c.wiped THEN persisted ELSE Empty
    /\ latest' = index'

\* VectorStoreManager()
VSConstructFrom(outcomes, stamps) ==
    /\ vs_pc \in {"new", "failed"}
    /\ \E o1, o2, o3 \in outcomes, ts \in stamps :
          VSConstructed(OpenChain(o1, o2, o3, ts))
    /\ UNCHANGED vs_last

VSConstruct == VSConstructFrom(OpenOutcomes, Timestamps)

Added(op, chunks, r) ==
    /\ index' = r.index
    /\ latest' = IF r.raised THEN latest
                 ELSE [id \in DOMAIN latest \cup {chunks[i].chunk_id : i \in 1..Len(chunks)} |->
                          IF \E i \in 1..Len(chunks) : chunks[i].chunk_id = id
                          THEN chunks[FirstAt([i \in 1..Len(chunks) |-> chunks[i].chunk_id], id, 1)]
                          ELSE latest[id]]
    /\ vs_last' = [op |-> op, raised |-> r.raised, exc |-> r.exc, chunks |-> chunks,
                   query |-> "", k |-> 0, results |-> <<>>, before |-> index]

\* create_vector_store(chunks)
CreateVectorStore ==
    /\ vs_pc = "ready"
    /\ \E chunks \in Batches : Added("create_vector_store", chunks, AddChunks(index, chunks))
    /\ UNCHANGED <<vs_pc, opens, client_path, persisted>>

\* add_documents(chunks)
AddDocuments ==
    /\ vs_pc = "ready"
    /\ \E chunks \in Batches : Added("add_documents", chunks, AddChunks(index, chunks))
    /\ UNCHANGED <<vs_pc, opens, client_path, persisted>>

Searched(query, k, r) ==
    vs_last' = [op |-> "search_similar", raised |-> r.raised, exc |-> r.exc,
                chunks |-> <<>>, query |-> query, k |-> k, results |-> r.results,
                before |-> index]

\* search_similar(query, k)
SearchSimilar ==
    /\ vs_pc = "ready"
    /\ \E query \in {"q1", "q2"}, k \in 1..MaxK :
       \E r \in CollectionQuery(index, Embed(query), k) :
          Searched(query, k, search_similar(index, query, k, r))
    /\ UNCHANGED <<vs_pc, opens, client_path, persisted, index, latest>>

\* clear_vector_store(): delete_collection + create_collection, or an
\* exception of the client that is printed and swallowed
ClearVectorStore ==
    /\ vs_pc = "ready"
    /\ \E outcome \in {"ok", "error"} :
          /\ index' = IF outcome = "ok" THEN Empty ELSE index
          /\ latest' = IF outcome = "ok" THEN Empty ELSE latest
          /\ vs_last' = [NoOp EXCEPT !.op = "clear_vector_store", !.exc = outcome,
                                     !.before = index]
    /\ UNCHANGED <<vs_pc, opens, client_path, persisted>>

NextVS ==
    \/ VSConstruct /\ UNCHANGED <<llm_vars, app_vars, split_vars>>
    \/ CreateVectorStore /\ UNCHANGED <<llm_vars, app_vars, split_vars>>
    \/ AddDocuments /\ UNCHANGED <<llm_vars, app_vars, split_vars>>
    \/ SearchSimilar /\ UNCHANGED <<llm_vars, app_vars, split_vars>>
    \/ ClearVectorStore /\ UNCHANGED <<llm_vars, app_vars, split_vars>>

SpecVS == InitVS /\ [][NextVS]_vars

-----------------------------------------------------------------------------
(* document_processor.py: process_document.  A file is given with what its *)
(* extractor and the text splitter yield: per page, the list of chunks.    *)

\* os.path.splitext(filename)[1].lower()
FileExt(filename) ==
    CASE filename = "a.txt" -> ".txt"
      [] filename = "bad.pdf" -> ".pdf"
      [] filename = "B.PDF" -> ".pdf"
      [] filename = "c.exe" -> ".exe"
      [] OTHER -> ""

\* file_ext[1:]
SourceType(ext) ==
    CASE ext = ".txt" -> "txt"
      [] ext = ".pdf" -> "pdf"
      [] ext = ".docx" -> "docx"
      [] OTHER -> ""

\* the exception of the extractors, lines 49-50, 73-74 and 95-96
ReadErrorText(ext) ==
    CASE ext = ".pdf" -> <<"Error reading PDF: ">>
      [] ext = ".docx" -> <<"Error reading DOCX: ">>
      [] OTHER -> <<"Error reading TXT: ">>

\* lines 132-141: the chunks of one page, the index restarting at 0
PageChunks(filename, page) ==
    [i \in 1..Len(page.chunks) |->
        Chunk(page.chunks[i], filename, page.page, i - 1, SourceType(FileExt(filename)))]

RECURSIVE AllPageChunks(_, _, _)
AllPageChunks(filename, pages, i) ==
    IF i > Len(pages) THEN <<>>
    ELSE PageChunks(filename, pages[i]) \o AllPageChunks(filename, pages, i + 1)

\* process_document(file_path, filename): [raised, exc, chunks]
process_document(file) ==
    IF FileExt(file.name) \notin {".pdf", ".docx", ".txt"}
    THEN [raised |-> TRUE, exc |-> <<"Unsupported file type: ", FileExt(file.name)>>,
          chunks |-> <<>>]
    ELSE IF ~file.readable
    THEN [raised |-> TRUE, exc |-> ReadErrorText(FileExt(file.name)),
          chunks |-> <<>>]
    ELSE [raised |-> FALSE, exc |-> <<>>,
          chunks |-> AllPageChunks(file.name, file.pages, 1)]

-----------------------------------------------------------------------------
(* app.py: the Streamlit script.  vector_manager and llm_handler are       *)
(* shared by all sessions (st.cache_resource); session state is per        *)
(* session.                                                                *)

K == 4

NoInfoMessage ==
    <<"I couldn't find relevant information in the documents to answer your question.">>

UserTurn(q) == [role |-> "user", content |-> StrV(<<q>>), sources |-> <<>>]
AssistantTurn(answer, sources) ==
    [role |-> "assistant", content |-> answer, sources |-> sources]

File(name, readable, pages) == [name |-> name, readable |-> readable, pages |-> pages]

FilePool ==
    { File("a.txt", TRUE, <<[page |-> 1, chunks |-> <<"t1">>]>>),
      File("a.txt", TRUE, <<[page |-> 1, chunks |-> <<"t2", "t1">>]>>),
      File("bad.pdf", FALSE, <<>>) }

Uploads == SeqsUpTo(FilePool, MaxFiles) \ {<<>>}

\* the worker runs of the application: Ollama up or down at start, an answer
\* or a timeout for a question
AppProbeRuns ==
    {SubprocessRun(TRUE, 1, ProbeTimeout, WorkerCheck(backend), <<>>) :
        backend \in {"up", "down"}}
AppGenerateRuns ==
    {SubprocessRun(TRUE, duration, GenerateTimeout, WorkerChat("up", StrV(<<"Paris">>)), <<>>) :
        duration \in {1, 61}}

\* tempfile.NamedTemporaryFile(delete=False, suffix=ext) for the i-th upload
TmpPath(files, i) == <<"tmp", ToString(i), FileExt(files[i].name)>>

\* one turn of the loop of lines 61-80 on file i, r what process_document did
FileProcessed(files, i, acc, r) ==
    [chunks |-> IF r.raised THEN acc.chunks ELSE acc.chunks \o r.chunks,
     indexed |-> IF r.raised \/ (\E d \in 1..Len(acc.indexed) : acc.indexed[d] = files[i].name)
                 THEN acc.indexed
                 ELSE Append(acc.indexed, files[i].name),
     \* st.error(f"Error processing {uploaded_file.name}: {str(e)}")
     errors |-> IF r.raised
                THEN Append(acc.errors, [name |-> files[i].name, message |-> r.exc])
                ELSE acc.errors,
     tmp_created |-> Append(acc.tmp_created, TmpPath(files, i)),
     tmp_removed |-> Append(acc.tmp_removed, TmpPath(files, i))]

\* a loop that ends at the first file that cannot be processed
RECURSIVE ProcessFilesFatal(_, _, _)
ProcessFilesFatal(files, i, acc) ==
    IF i > Len(files) \/ process_document(files[i]).raised THEN acc
    ELSE ProcessFilesFatal(files, i + 1,
                           FileProcessed(files, i, acc, process_document(files[i])))

\* lines 61-80: the loop over the uploaded files
RECURSIVE ProcessFiles(_, _, _)
ProcessFiles(files, i, acc) ==
    IF i > Len(files) THEN acc
    ELSE ProcessFiles(files, i + 1,
                      FileProcessed(files, i, acc, process_document(files[i])))

LoopStart(indexed) ==
    [chunks |-> <<>>, indexed |-> indexed, errors |-> <<>>,
     tmp_created |-> <<>>, tmp_removed |-> <<>>]

\* lines 82-86: create_vector_store on the chunks of the batch, if any; when it
\* raises, the script run ends there and vector_store keeps its value
Indexed(s, files, acc, r) ==
    /\ documents_indexed' = [documents_indexed EXCEPT ![s] = acc.indexed]
    /\ index' = r.index
    /\ latest' = IF r.raised \/ acc.chunks = <<>> THEN latest
                 ELSE [id \in DOMAIN latest \cup Range(IdsOfChunks(acc.chunks)) |->
                          IF id \in Range(IdsOfChunks(acc.chunks))
                          THEN acc.chunks[FirstAt(IdsOfChunks(acc.chunks), id, 1)]
                          ELSE latest[id]]
    /\ vector_store' = [vector_store EXCEPT ![s] =
                            IF acc.chunks # <<>> /\ ~r.raised THEN TRUE ELSE @]
    /\ app_last' = [NoAction EXCEPT !.action = "process", !.session = s,
                                    !.files = files, !.before = index,
                                    !.errors = acc.errors, !.chunks = Len(acc.chunks),
                                    !.tmp_created = acc.tmp_created,
                                    !.tmp_removed = acc.tmp_removed,
                                    !.raised = r.raised, !.exc = r.exc]

NotAdded == [raised |-> FALSE, exc |-> "", index |-> index]

BatchDone(s, files, acc) ==
    Indexed(s, files, acc, IF acc.chunks = <<>> THEN NotAdded ELSE AddChunks(index, acc.chunks))

ComponentsReady == vs_pc = "ready" /\ h_pc = "ready"

\* lines 33-34 of the first script run: get_vector_store_manager(), which is
\* tried again on the next run when it raised
StartVectorStore ==
    /\ VSConstructFrom({"ok"}, {"1700000000"})
    /\ UNCHANGED <<llm_vars, app_vars, split_vars>>

\* get_llm_handler()
StartLLMHandler ==
    /\ vs_pc = "ready"
    /\ ConstructFrom(AppProbeRuns)
    /\ UNCHANGED <<vs_vars, app_vars, split_vars>>

\* "Process Documents" on the uploaded files, one of uploads
ProcessDocumentsFrom(s, uploads) ==
    /\ ComponentsReady
    /\ \E files \in uploads :
          BatchDone(s, files, ProcessFiles(files, 1, LoopStart(documents_indexed[s])))
    /\ UNCHANGED <<llm_vars, vs_pc, opens, client_path, persisted, vs_last,
                   chat_history, queries, split_vars>>

ProcessDocuments(s) == ProcessDocumentsFrom(s, Uploads)

\* "Clear All Data"
ClearAllData(s) ==
    /\ ComponentsReady
    /\ vector_store' = [vector_store EXCEPT ![s] = FALSE]
    /\ chat_history' = [chat_history EXCEPT ![s] = <<>>]
    /\ documents_indexed' = [documents_indexed EXCEPT ![s] = <<>>]
    /\ \E outcome \in {"ok", "error"} :
          /\ index' = IF outcome = "ok" THEN Empty ELSE index
          /\ latest' = IF outcome = "ok" THEN Empty ELSE latest
          /\ app_last' = [NoAction EXCEPT !.action = "clear", !.session = s,
                                          !.exc = outcome]
    /\ UNCHANGED <<llm_vars, vs_pc, opens, client_path, persisted, vs_last, queries,
                   split_vars>>

\* lines 139-150: the answer of generate_answer g is shown and recorded; when
\* it raised, the script run ends after the user turn
Answered(s, q, docs, g) ==
    /\ chat_history' = [chat_history EXCEPT ![s] =
                            IF g.raised THEN Append(@, UserTurn(q))
                            ELSE @ \o <<UserTurn(q), AssistantTurn(g.answer, g.sources)>>]
    /\ calls' = calls + 1
    /\ launches' = IF g.launched THEN launches + 1 ELSE launches
    /\ app_last' = [NoAction EXCEPT !.action = "query", !.session = s,
                                    !.raised = g.raised, !.exc = g.exc,
                                    !.retrieved = Len(docs), !.called_llm = TRUE]

\* lines 159-166
NotFound(s, q) ==
    /\ chat_history' = [chat_history EXCEPT ![s] =
                            @ \o <<UserTurn(q), AssistantTurn(StrV(NoInfoMessage), <<>>)>>]
    /\ UNCHANGED <<calls, launches>>
    /\ app_last' = [NoAction EXCEPT !.action = "query", !.session = s]

\* a variant without the test of line 139
RetrievedNoTest(s, q, docs) ==
    \E run \in (IF ollama_available THEN AppGenerateRuns ELSE {NoRun}) :
        Answered(s, q, docs,
                 generate_answer(ollama_available, ollama_error_message, q, docs, run))

\* lines 137-166, docs what search_similar returned
Retrieved(s, q, docs) ==
    IF docs # <<>>
    THEN \E run \in (IF ollama_available THEN AppGenerateRuns ELSE {NoRun}) :
            Answered(s, q, docs,
                     generate_answer(ollama_available, ollama_error_message, q, docs, run))
    ELSE NotFound(s, q)

\* a question typed into the chat input, offered only while
\* st.session_state.vector_store is not None
Query(s) ==
    /\ ComponentsReady
    /\ vector_store[s]
    /\ queries < MaxQueries
    /\ \E q \in Queries :
       \E r \in CollectionQuery(index, Embed(q), K) :
          Retrieved(s, q, search_similar(index, q, K, r).results)
    /\ queries' = queries + 1
    /\ UNCHANGED <<h_pc, ollama_python, ollama_available, ollama_error_message,
                   probes, last, vs_vars, vector_store, documents_indexed, split_vars>>

Init ==
    /\ h_pc = "new"
    /\ ollama_python = ""
    /\ ollama_available = FALSE
    /\ ollama_error_message = StrV(<<>>)
    /\ probes = 0
    /\ launches = 0
    /\ calls = 0
    /\ last = NoCall
    /\ vs_pc = "new"
    /\ opens = <<>>
    /\ client_path = <<>>
    /\ persisted = Empty
    /\ index = Empty
    /\ latest = Empty
    /\ vs_last = NoOp
    /\ vector_store = [s \in Sessions |-> FALSE]
    /\ chat_history = [s \in Sessions |-> <<>>]
    /\ documents_indexed = [s \in Sessions |-> <<>>]
    /\ queries = 0
    /\ app_last = NoAction
    /\ split_pc = "new"
    /\ split_input = <<>>
    /\ split_output = <<>>

Next ==
    \/ StartVectorStore
    \/ StartLLMHandler
    \/ \E s \in Sessions : ProcessDocuments(s)
    \/ \E s \in Sessions : ClearAllData(s)
    \/ \E s \in Sessions : Query(s)

Spec == Init /\ [][Next]_vars

-----------------------------------------------------------------------------
(* The "Process Documents" handler on batches of several files: a text     *)
(* file, a PDF whose second page has no text, an unreadable PDF and a file *)
(* of an unsupported type.                                                 *)

BatchFilePool ==
    { File("a.txt", TRUE, <<[page |-> 1, chunks |-> <<"t1", "t2">>]>>),
      File("B.PDF", TRUE, <<[page |-> 1, chunks |-> <<"t1">>],
                            [page |-> 3, chunks |-> <<"t1">>]>>),
      File("bad.pdf", FALSE, <<>>),
      File("c.exe", TRUE, <<[page |-> 1, chunks |-> <<"t1">>]>>) }

BatchUploads == SeqsUpTo(BatchFilePool, MaxBatchFiles) \ {<<>>}

InitBatch ==
    /\ h_pc = "new"
    /\ ollama_python = ""
    /\ ollama_available = FALSE
    /\ ollama_error_message = StrV(<<>>)
    /\ probes = 0
    /\ launches = 0
    /\ calls = 0
    /\ last = NoCall
    /\ vs_pc = "new"
    /\ opens = <<>>
    /\ client_path = <<>>
    /\ persisted = Empty
    /\ index = Empty
    /\ latest = Empty
    /\ vs_last = NoOp
    /\ vector_store = [s \in Sessions |-> FALSE]
    /\ chat_history = [s \in Sessions |-> <<>>]
    /\ documents_indexed = [s \in Sessions |-> <<>>]
    /\ queries = 0
    /\ app_last = NoAction
    /\ split_pc = "new"
    /\ split_input = <<>>
    /\ split_output = <<>>

NextBatch ==
    \/ StartVectorStore
    \/ StartLLMHandler
    \/ ProcessDocumentsFrom("s1", BatchUploads)
    \/ ClearAllData("s1")

SpecBatch == InitBatch /\ [][NextBatch]_vars

-----------------------------------------------------------------------------
(* document_processor.py, lines 22-27 and 129: the text splitter,          *)
(* langchain's RecursiveCharacterTextSplitter with keep_separator=True and *)
(* strip_whitespace=True (its defaults), on texts given as sequences of    *)
(* characters.                                                             *)

\* separators=["\\n\\n", "\\n", " ", ""]: in the source the backslashes are
\* escaped, so the first two separators are the characters backslash, n
Separators ==
    << <<"\\", "n", "\\", "n">>, <<"\\", "n">>, <<" ">>, <<>> >>

\* re.split on the separator, each separator kept at the start of the piece
\* that follows it
RECURSIVE Pieces(_, _, _, _)
Pieces(txt, sep, i, start) ==
    IF i + Len(sep) - 1 > Len(txt)
    THEN <<SubSeq(txt, start, Len(txt))>>
    ELSE IF SubSeq(txt, i, i + Len(sep) - 1) = sep
    THEN <<SubSeq(txt, start, i - 1)>> \o Pieces(txt, sep, i + Len(sep), i)
    ELSE Pieces(txt, sep, i + 1, start)

\* _split_text_with_regex: list(text) for the empty separator
SplitWithSeparator(txt, sep) ==
    IF sep = <<>>
    THEN [i \in 1..Len(txt) |-> <<txt[i]>>]
    ELSE SelectSeq(Pieces(txt, sep, 1, 1), LAMBDA piece : piece # <<>>)

RECURSIVE Concat(_)
Concat(docs) == IF docs = <<>> THEN <<>> ELSE Head(docs) \o Concat(Tail(docs))

\* _join_docs with separator "": the joined text stripped, dropped when empty
AppendDoc(docs, current) ==
    IF Strip(Concat(current)) = <<>> THEN docs
    ELSE Append(docs, Strip(Concat(current)))

\* the while loop of _merge_splits: pieces leave the front of the current
\* chunk until what stays is no longer than the overlap and leaves room for
\* the next piece
RECURSIVE PopFront(_, _)
PopFront(current, len) ==
    IF \/ Len(Concat(current)) > ChunkOverlap
       \/ (Len(Concat(current)) + len > ChunkSize /\ Len(Concat(current)) > 0)
    THEN PopFront(Tail(current), len)
    ELSE current

\* _merge_splits(splits, "")
RECURSIVE MergeSplits(_, _, _, _)
MergeSplits(splits, i, current, docs) ==
    IF i > Len(splits) THEN AppendDoc(docs, current)
    ELSE IF Len(Concat(current)) + Len(splits[i]) > ChunkSize /\ current # <<>>
    THEN MergeSplits(splits, i + 1,
                     Append(PopFront(current, Len(splits[i])), splits[i]),
                     AppendDoc(docs, current))
    ELSE MergeSplits(splits, i + 1, Append(current, splits[i]), docs)

\* the first separator of the list that is empty or occurs in the text
RECURSIVE SepIndex(_, _, _)
SepIndex(txt, seps, i) ==
    IF i > Len(seps) THEN 0
    ELSE IF seps[i] = <<>> \/ Contains(txt, seps[i]) THEN i
    ELSE SepIndex(txt, seps, i + 1)

NewSeparators(seps, idx) ==
    IF idx = 0 \/ seps[idx] = <<>> THEN <<>> ELSE SubSeq(seps, idx + 1, Len(seps))

Merged(good) == IF good = <<>> THEN <<>> ELSE MergeSplits(good, 1, <<>>, <<>>)

\* _split_text(text, separators)
RECURSIVE SplitText(_, _)
RECURSIVE Collect(_, _, _, _, _)
Collect(splits, i, good, seps, final) ==
    IF i > Len(splits) THEN final \o Merged(good)
    ELSE IF Len(splits[i]) < ChunkSize
    THEN Collect(splits, i + 1, Append(good, splits[i]), seps, final)
    ELSE Collect(splits, i + 1, <<>>, seps,
                 final \o Merged(good)
                       \o (IF seps = <<>> THEN <<splits[i]>>
                           ELSE SplitText(splits[i], seps)))

SplitUsing(txt, seps, idx) ==
    Collect(SplitWithSeparator(txt, IF idx = 0 THEN seps[Len(seps)] ELSE seps[idx]), 1, <<>>,
            NewSeparators(seps, idx), <<>>)

SplitText(txt, seps) == SplitUsing(txt, seps, SepIndex(txt, seps, 1))

\* self.text_splitter.split_text(text)
split_text(txt) == SplitText(txt, Separators)

\* the texts: words, spaces, paragraph breaks (two newline characters) and the
\* two characters backslash, n
Units == {<<"a", "b">>, <<"c">>, <<" ">>, <<"\n", "\n">>, <<"\\", "n">>}

SplitTexts == {Concat(units) : units \in SeqsUpTo(Units, MaxUnits)}

InitSplit ==
    /\ h_pc = "new"
    /\ ollama_python = ""
    /\ ollama_available = FALSE
    /\ ollama_error_message = StrV(<<>>)
    /\ probes = 0
    /\ launches = 0
    /\ calls = 0
    /\ last = NoCall
    /\ vs_pc = "new"
    /\ opens = <<>>
    /\ client_path = <<>>
    /\ persisted = Empty
    /\ index = Empty
    /\ latest = Empty
    /\ vs_last = NoOp
    /\ vector_store = [s \in Sessions |-> FALSE]
    /\ chat_history = [s \in Sessions |-> <<>>]
    /\ documents_indexed = [s \in Sessions |-> <<>>]
    /\ queries = 0
    /\ app_last = NoAction
    /\ split_pc = "new"
    /\ split_input \in SplitTexts
    /\ split_output = <<>>

SplitTextCall ==
    /\ split_pc = "new"
    /\ split_output' = split_text(split_input)
    /\ split_pc' = "done"
    /\ UNCHANGED <<split_input, llm_vars, vs_vars, app_vars>>

NextSplit == SplitTextCall

SpecSplit == InitSplit /\ [][NextSplit]_vars

-----------------------------------------------------------------------------
(* Properties of LLMHandler, checked under SpecLLM.                        *)

Ready == h_pc = "ready"
CalledAnswer == Ready /\ last.op = "generate_answer"
CalledAny == Ready /\ last.op \in {"generate_answer", "generate_summary"}
\* the worker subprocess of the last call ran to completion
Completed == last.launched /\ last.run.kind = "completed"

\* C1: on a handler that construction left unavailable, every generate_answer
\* and generate_summary call returns (never raises) a string that contains the
\* recorded unavailability reason.
C1_UnavailableCallReturnsReason ==
    (CalledAny /\ ~ollama_available) =>
        /\ ~last.raised
        /\ last.answer.t = "str"
        /\ Contains(last.answer.s, PyStr(ollama_error_message))

\* C2: availability is decided once, at construction, by at most one probe:
\* after construction no call changes ollama_available or
\* ollama_error_message or probes again, and an unavailable handler never
\* launches a worker subprocess.
C2_AvailabilityDecidedOnce ==
    /\ [](probes <= 1)
    /\ []((Ready /\ ~ollama_available) => launches = 0)
    /\ [][Ready => /\ h_pc' = h_pc
                   /\ ollama_available' = ollama_available
                   /\ ollama_error_message' = ollama_error_message
                   /\ probes' = probes]_vars

C2_Witness ==
    /\ Ready /\ ~ollama_available /\ probes = 1
    /\ calls = MaxCalls /\ last.op = "generate_answer" /\ launches = 0

\* C3: on an available handler every outcome of the worker invocation ends
\* with generate_answer returning a non-empty string as the answer.
C3_AnswerIsNonEmptyString ==
    (CalledAnswer /\ last.launched) =>
        /\ ~last.raised
        /\ last.answer.t = "str"
        /\ last.answer.s # <<>>

AnswerTexts == {<<"Paris">>, <<>>, NoResponseMessage}
ErrorTexts == {<<"connection refused">>}

OkStdout(a) == Dumps(<< <<"ok", BoolV(TRUE)>>, <<"answer", StrV(a)>> >>) \o <<"\n">>
ErrorStdout(e) == Dumps(<< <<"ok", BoolV(FALSE)>>, <<"error", StrV(e)>> >>) \o <<"\n">>

\* C4 as claimed: when the worker prints {"ok": true, "answer": A} the answer
\* is exactly A for every string A, the empty one included, whatever is on
\* stderr; when it prints {"ok": false, "error": E} the answer is an error
\* string containing E.
C4_AnswerIsExactlyA ==
    (CalledAnswer /\ Completed) =>
        /\ \A a \in AnswerTexts :
              last.run.stdout = OkStdout(a) => last.answer = StrV(a)
        /\ \A e \in ErrorTexts :
              last.run.stdout = ErrorStdout(e) =>
                  /\ last.answer.t = "str"
                  /\ last.answer.s[1] = "Error generating response: "
                  /\ Contains(last.answer.s, e)

\* C4 as the code has it: when the worker prints {"ok": true, "answer": A}
\* the answer is exactly A for every non-empty string A, whatever is on
\* stderr; for the empty A it is "Error generating response: <stderr>" when
\* stderr is not empty and "No response from Ollama worker." otherwise; when
\* the worker prints {"ok": false, "error": E} the answer is an error string
\* containing E.
C4_AnswerIsNonEmptyAOrFallback ==
    (CalledAnswer /\ Completed) =>
        /\ \A a \in AnswerTexts \ {<<>>} :
              last.run.stdout = OkStdout(a) => last.answer = StrV(a)
        /\ last.run.stdout = OkStdout(<<>>) =>
              last.answer =
                  IF last.run.stderr # <<>>
                  THEN StrV(<<"Error generating response: ">> \o Strip(last.run.stderr))
                  ELSE StrV(NoResponseMessage)
        /\ \A e \in ErrorTexts :
              last.run.stdout = ErrorStdout(e) =>
                  /\ last.answer.t = "str"
                  /\ last.answer.s[1] = "Error generating response: "
                  /\ Contains(last.answer.s, e)

C4_Witness ==
    /\ CalledAnswer /\ Completed
    /\ last.run.stdout = OkStdout(<<>>)
    /\ last.run.stderr # <<>>
    /\ last.answer.t = "str" /\ last.answer.s[1] = "Error generating response: "

\* stdout that json.loads rejects, or that is JSON but no object
NotAnObject(p) == ~(p.good /\ p.isdict)
Unstructured(out) == out # <<>> /\ NotAnObject(Loads(Strip(out)))

\* C5 as claimed: when stdout cannot be parsed as a structured response the
\* answer is that raw output verbatim; "No response from Ollama worker." is
\* returned exactly when the worker produced no output at all.
C5_RawVerbatimAndNoResponseIffNoOutput ==
    (CalledAnswer /\ Completed) =>
        /\ Unstructured(last.run.stdout) => last.answer = StrV(last.run.stdout)
        /\ last.answer = StrV(NoResponseMessage)
              <=> (last.run.stdout = <<>> /\ last.run.stderr = <<>>)

\* the worker itself printed the fixed message, as its answer or as raw text
EchoesNoResponse(out) ==
    out = OkStdout(NoResponseMessage) \/ Strip(out) = NoResponseMessage

\* stdout carries no answer: empty, only whitespace, or an object with a truthy
\* ok and an answer that is absent, null, "", 0 or []
NoAnswerIn(out) ==
    \/ Strip(out) = <<>>
    \/ \E okv \in {BoolV(TRUE), IntV(5)} :
          \/ out = Dumps(<< <<"ok", okv>> >>) \o <<"\n">>
          \/ \E a \in {StrV(<<>>), NoneV, IntV(0), ListV(<<>>)} :
                out = Dumps(<< <<"ok", okv>>, <<"answer", a>> >>) \o <<"\n">>

\* C5 as the code has it: when stdout cannot be parsed as a structured
\* response and is not only whitespace, the answer is that raw output with
\* the surrounding whitespace stripped; "No response from Ollama worker." is
\* returned exactly when stderr is empty and stdout carries no answer (or the
\* worker itself printed that message).
C5_RawStrippedAndNoResponseIffNoAnswer ==
    (CalledAnswer /\ Completed) =>
        /\ (Unstructured(last.run.stdout) /\ Strip(last.run.stdout) # <<>>) =>
              last.answer = StrV(Strip(last.run.stdout))
        /\ last.answer = StrV(NoResponseMessage)
              <=> \/ last.run.stderr = <<>> /\ NoAnswerIn(last.run.stdout)
                  \/ EchoesNoResponse(last.run.stdout)

C5_Witness ==
    /\ CalledAnswer /\ Completed
    /\ last.run.stdout = <<" ", "junk", "\n">>
    /\ last.answer = StrV(<<"junk">>)

-----------------------------------------------------------------------------
(* Properties of VectorStoreManager, checked under SpecVS.                 *)

\* C6: construction follows open ./chroma_db -> wipe and reopen -> open a
\* fresh timestamped path and takes the client of the first step that
\* succeeds; whatever error the first open and the reopen raise, it goes on to
\* the next step instead of propagating, and the timestamped path is used only
\* after both have failed.
C6_ThreeStepChain ==
    vs_pc # "new" =>
        LET n == Len(opens)
        IN  /\ n \in 1..3
            /\ opens[1].path = PrimaryPath
            /\ n >= 2 => opens[2].path = PrimaryPath
            /\ n = 3 => opens[3].path[1] = "./chroma_db_"
            /\ \A i \in 1..(n - 1) : opens[i].outcome # "ok"
            /\ vs_pc = "ready" => opens[n].outcome = "ok" /\ client_path = opens[n].path
            /\ vs_pc = "failed" => n = 3 /\ opens[n].outcome # "ok"

IsAdd(op) == op \in {"create_vector_store", "add_documents"}
IdsOf(chunks) == [i \in 1..Len(chunks) |-> chunks[i].chunk_id]

\* C7: adding chunks is an upsert keyed by chunk_id: after any sequence of
\* adds the index holds exactly the chunk ids added since the last clear, each
\* with the text, metadata and embedding of its most recent add, and re-adding
\* ids that are already present raises nothing and leaves total_documents
\* unchanged.  (Stated for a store that was empty when the program started;
\* batches that repeat an id within themselves are left out.)
C7_AddIsUpsert ==
    (IsAdd(vs_last.op) /\ ~HasDuplicates(IdsOf(vs_last.chunks)) /\ persisted = Empty) =>
        /\ ~vs_last.raised
        /\ DOMAIN index = DOMAIN latest
        /\ \A id \in DOMAIN index :
              /\ index[id].text = latest[id].text
              /\ index[id].document = latest[id].document
              /\ index[id].page = latest[id].page
              /\ index[id].emb = Embed(latest[id].text)
        /\ Range(IdsOf(vs_last.chunks)) \subseteq DOMAIN vs_last.before =>
              total_documents(index) = total_documents(vs_last.before)

\* C8: for every index size m and every k >= 1, search_similar(query, k)
\* returns, without raising, exactly min(m, k) results in ascending order of
\* distance, each an entry of the index with its distance to the query; on an
\* empty index it returns the empty list.
C8_SearchReturnsMinSorted ==
    vs_last.op = "search_similar" =>
        LET m == total_documents(vs_last.before)
            r == vs_last.results
        IN  /\ ~vs_last.raised
            /\ Len(r) = Min(m, vs_last.k)
            /\ m = 0 => r = <<>>
            /\ \A i, j \in 1..Len(r) :
                  i < j => r[i].distance <= r[j].distance /\ r[i].chunk_id # r[j].chunk_id
            /\ \A i \in 1..Len(r) :
                  /\ r[i].chunk_id \in DOMAIN vs_last.before
                  /\ r[i].text = vs_last.before[r[i].chunk_id].text
                  /\ r[i].distance = Distance(Embed(vs_last.query), Embed(r[i].text))

\* a search for more results than the index holds, with distinct distances
C8_Witness ==
    /\ vs_last.op = "search_similar"
    /\ total_documents(vs_last.before) = 2 /\ vs_last.k = 3
    /\ Len(vs_last.results) = 2
    /\ vs_last.results[1].distance < vs_last.results[2].distance

(* C9: when the retrieval of a question returns no chunks (the index is     *)
(* empty when the question is asked), the script appends to the session's  *)
(* chat history the user turn and then one assistant turn carrying the     *)
(* fixed "I couldn't find relevant information ..." message with an empty  *)
(* source list, generate_answer is not called and no worker is launched.   *)
(* Checked under Spec.                                                     *)
C9_EmptyRetrievalFixedAnswer ==
    [][\A s \in Sessions :
          (queries' = queries + 1 /\ app_last'.session = s /\ index = Empty)
          => /\ Len(chat_history'[s]) = Len(chat_history[s]) + 2
             /\ SubSeq(chat_history'[s], 1, Len(chat_history[s])) = chat_history[s]
             /\ chat_history'[s][Len(chat_history[s]) + 1].role = "user"
             /\ chat_history'[s][Len(chat_history[s]) + 2] =
                   [role |-> "assistant", content |-> StrV(NoInfoMessage),
                    sources |-> <<>>]
             /\ calls' = calls
             /\ launches' = launches
             /\ ~app_last'.called_llm]_vars

C9_Witness ==
    /\ app_last.action = "query"
    /\ app_last.retrieved = 0
    /\ index = Empty
    /\ ~app_last.called_llm
    /\ \E s \in Sessions :
          /\ app_last.session = s
          /\ Len(chat_history[s]) = 2
          /\ chat_history[s][2].content = StrV(NoInfoMessage)
          /\ chat_history[s][2].sources = <<>>

\* C10: for every non-empty list of retrieved chunks, available or not,
\* generate_answer returns one citation {document, page, text} per chunk, in
\* retrieval order, with page "N/A" for a chunk whose metadata has no page.
\* (The calls that fail by C1's TypeError are left out.)
C10_OneCitationPerChunk ==
    (CalledAnswer /\ last.docs # <<>>
       /\ (ollama_available \/ ollama_error_message.t = "str")) =>
        /\ ~last.raised
        /\ Len(last.sources) = Len(last.docs)
        /\ \A i \in 1..Len(last.docs) :
              /\ last.sources[i].document = last.docs[i].document
              /\ last.sources[i].text = last.docs[i].text
              /\ last.sources[i].page =
                    IF last.docs[i].page.t = "missing"
                    THEN StrV(<<"N/A">>)
                    ELSE last.docs[i].page

\* the files of a batch whose extraction fails: unreadable, or of a type
\* other than pdf, docx, txt
Unsupported(f) == f.name = "c.exe"
Fails(f) == ~f.readable \/ Unsupported(f)
\* the chunk ids a readable, supported file yields
IdsOfFile(f) ==
    UNION {{ChunkId(f.name, f.pages[p].page, i - 1) : i \in 1..Len(f.pages[p].chunks)} :
              p \in 1..Len(f.pages)}
NumChunks(f) == Cardinality(IdsOfFile(f))
RECURSIVE SumChunks(_, _)
SumChunks(files, i) ==
    IF i > Len(files) THEN 0
    ELSE (IF Fails(files[i]) THEN 0 ELSE NumChunks(files[i])) + SumChunks(files, i + 1)
SameNameTwice(files) ==
    \E i, j \in 1..Len(files) :
        i < j /\ ~Fails(files[i]) /\ ~Fails(files[j]) /\ files[i].name = files[j].name

RECURSIVE BatchChunks(_, _)
BatchChunks(files, i) ==
    IF i > Len(files) THEN <<>>
    ELSE process_document(files[i]).chunks \o BatchChunks(files, i + 1)

\* the chunk of position j in cs is the first of its page
FirstOfPage(cs, j) ==
    j = 1 \/ cs[j - 1].page # cs[j].page \/ cs[j - 1].document # cs[j].document

\* C12: every chunk of process_document has chunk_id
\* "<filename>_page<page>_chunk<index>" with a one-based page number and a
\* zero-based index that restarts on each page, and among all chunks handed
\* to the index in one processing batch no two share a chunk_id.  Checked
\* under SpecBatch.
C12_ChunkIdsFormattedAndUnique ==
    app_last.action = "process" =>
        /\ Len(BatchChunks(app_last.files, 1)) = app_last.chunks
        /\ \A j \in 1..Len(BatchChunks(app_last.files, 1)) :
              /\ BatchChunks(app_last.files, 1)[j].page.n >= 1
              /\ \E k \in 0..MaxChunks :
                    /\ BatchChunks(app_last.files, 1)[j].chunk_id =
                          << BatchChunks(app_last.files, 1)[j].document, "_page",
                             ToString(BatchChunks(app_last.files, 1)[j].page.n),
                             "_chunk", ToString(k) >>
                    /\ FirstOfPage(BatchChunks(app_last.files, 1), j) => k = 0
                    /\ ~FirstOfPage(BatchChunks(app_last.files, 1), j) =>
                          BatchChunks(app_last.files, 1)[j - 1].chunk_id[5] = ToString(k - 1)
        /\ \A i, j \in 1..Len(BatchChunks(app_last.files, 1)) :
              i # j => BatchChunks(app_last.files, 1)[i].chunk_id
                          # BatchChunks(app_last.files, 1)[j].chunk_id

ParagraphBreak == <<"\n", "\n">>

\* the paragraphs of a text: what lies between its paragraph breaks
Paragraphs(txt) ==
    [p \in 1..Len(Pieces(txt, ParagraphBreak, 1, 1)) |->
        IF p = 1 THEN Pieces(txt, ParagraphBreak, 1, 1)[p]
        ELSE SubSeq(Pieces(txt, ParagraphBreak, 1, 1)[p], 3,
                    Len(Pieces(txt, ParagraphBreak, 1, 1)[p]))]

RECURSIVE JoinParagraphs(_, _, _)
JoinParagraphs(ps, i, j) ==
    IF i = j THEN ps[i] ELSE ps[i] \o ParagraphBreak \o JoinParagraphs(ps, i + 1, j)

\* the chunk begins where a paragraph begins and ends where a paragraph ends
WholeParagraphs(chunk, ps) ==
    \E i, j \in 1..Len(ps) : i <= j /\ chunk = Strip(JoinParagraphs(ps, i, j))

\* C13: for a text longer than chunk_size that contains a paragraph break
\* (two newline characters) and whose paragraphs each fit in chunk_size, the
\* chunk boundaries fall on the paragraph breaks, not on a space or inside a
\* word: every chunk is one paragraph or several consecutive whole
\* paragraphs.  Checked under SpecSplit.
C13_BoundariesOnParagraphBreaks ==
    (/\ split_pc = "done"
     /\ Len(split_input) > ChunkSize
     /\ Contains(split_input, ParagraphBreak)
     /\ \A p \in 1..Len(Paragraphs(split_input)) :
           Len(Paragraphs(split_input)[p]) <= ChunkSize) =>
        \A c \in 1..Len(split_output) :
            WholeParagraphs(split_output[c], Paragraphs(split_input))

\* C14: a Clear All Data action, after any sequence of processing batches and
\* queries, leaves the index with zero entries and the clicking session's chat
\* history and list of indexed documents empty, and no query is served while
\* the index has not been given a chunk by a later processing batch (a query
\* is only ever served on a non-empty index).  Checked under Spec.
C14_ClearEmptiesAndGatesQueries ==
    [][/\ \A s \in Sessions :
             (app_last'.action = "clear" /\ app_last'.session = s) =>
                 /\ index' = Empty
                 /\ chat_history'[s] = <<>>
                 /\ documents_indexed'[s] = <<>>
                 /\ ~vector_store'[s]
       /\ (queries' = queries + 1) => index # Empty]_vars

\* C15: after LLMHandler construction, on every path through the probe,
\* either ollama_available is true and ollama_error_message is empty, or
\* ollama_available is false and ollama_error_message is a non-empty string;
\* and ollama_available is true only if the probe ran to completion and its
\* stdout parsed as a JSON object whose ok field is truthy.
C15_AvailableXorMessage ==
    Ready =>
        /\ \/ ollama_available /\ ollama_error_message = StrV(<<>>)
           \/ /\ ~ollama_available
              /\ ollama_error_message.t = "str"
              /\ ollama_error_message.s # <<>>
        /\ (last.op = "__init__" /\ ollama_available) =>
              /\ last.run.kind = "completed"
              /\ Loads(Strip(last.run.stdout)).good
              /\ Loads(Strip(last.run.stdout)).isdict
              /\ Truthy(Get(Loads(Strip(last.run.stdout)).d, "ok", NoneV))

=============================================================================
